---- MODULE Spec2Model ----
(***************************************************************************)
(* Backtest engines of observer1220/expert_adviser:                        *)
(*   main.py          QuantTradingBot     fixed stop-loss / take-profit    *)
(*   main2.py         QuantTradingBot     "no stop-loss" variant           *)
(*   main3.py         AdaptiveTradingBot  ATR risk, clustered RSI guards   *)
(*   main_revised.py  QuantTradingBot     refactoring of main.py           *)
(*                                                                         *)
(* Numbers.  Every Python float is an exact rational <<n, d>> in lowest    *)
(* terms with d > 0; <<0, 0>> is NaN and <<1, 0>> is +inf.  Bars carry     *)
(* integer prices, so all sums are exact and a comparison of the model is  *)
(* the comparison of the real numbers the floats stand for.  The RSI       *)
(* column is held in hundreds (RSI / 100), so its guards 70 and 30 are     *)
(* the rationals 70/100 and 30/100.                                        *)
(*                                                                         *)
(* Bars.  run() iterates over a series it was handed as a whole; bar i     *)
(* enters the model when the loop reaches index i.  That is the same run   *)
(* for the rolling and recursive columns, which at index i read bars 0..i  *)
(* only.  The clustering of main3.py reads the whole RSI column before     *)
(* the loop; KMeans is library code, and its two outer centroids are       *)
(* drawn from ThresholdPairs when run() starts.  Columns no decision       *)
(* reads (EMA12, EMA26, MACD, Signal and ATR of main2.py) are left out.    *)
(*                                                                         *)
(* Every state with pc = "loop" is also the state in which run() returns   *)
(* for the series that ends with the last bar consumed.                    *)
(***************************************************************************)
EXTENDS Integers, Sequences, FiniteSets, TLC

VARIABLES
    bots,    \* instance -> the engine object (the attributes of self)
    runs,    \* instance -> the frame of its run(): pc, bars consumed, RSI guards
    source,  \* instance -> the bar source feeding it
    obs      \* instance -> record of the last bar step, and history of the position

vars == <<bots, runs, source, obs>>

----------------------------------------------------------------------------
(* Bounds of the bar source and of the environment.                        *)

\* the rolling windows of the moving averages (SMA20, SMA50)
FastWindow == 20
SlowWindow == 50
\* price of the leading flat stretch of a series
Base == 50
\* numbers of leading bars that all close at Base: the tail either lets SMA50
\* come to be defined, or lies around the bar at which SMA20 does
FlatLens == {SlowWindow - 3, FastWindow - 3}
\* number of bars after the flat stretch
MaxTail == 6
\* distances from Base a bar of the tail may close at
Levels == {0, 10, 40}
\* the same for the series handed to main3.py
Levels3 == {-10, 0, 40}
\* High - Close = Close - Low of the bars handed to main3.py
Spreads == {1}
\* values datetime.now() may return
Times == {0, 1}

Variants == {"main", "main2", "main3", "main_revised"}

----------------------------------------------------------------------------
(* Exact rationals.                                                        *)

Abs(x) == IF x < 0 THEN -x ELSE x

Max2(x, y) == IF x >= y THEN x ELSE y

RECURSIVE GCD(_, _)
GCD(a, b) == IF b = 0 THEN a ELSE GCD(b, a % b)

NaN == <<0, 0>>

Inf == <<1, 0>>

Rat(n, d) == LET g == GCD(Abs(n), d) IN <<n \div g, d \div g>>

RInt(x) == <<x, 1>>

IsNaN(r) == r = NaN

IsFinite(r) == r[2] > 0

\* a/b < c/d for b, d > 0, by continued-fraction descent (no products)
RECURSIVE FracLess(_, _, _, _)
FracLess(a, b, c, d) ==
    LET qa == a \div b
        qc == c \div d
        ra == a % b
        rc == c % d
    IN  IF qa # qc THEN qa < qc
        ELSE IF rc = 0 THEN FALSE
        ELSE IF ra = 0 THEN TRUE
        ELSE FracLess(d, rc, b, ra)

\* Python's <, >, <=, >= on floats: any comparison with NaN is False
Lt(x, y) == IsFinite(x) /\ IsFinite(y) /\ FracLess(x[1], x[2], y[1], y[2])

Gt(x, y) == Lt(y, x)

Le(x, y) == IsFinite(x) /\ IsFinite(y) /\ ~FracLess(y[1], y[2], x[1], x[2])

Ge(x, y) == Le(y, x)

RNeg(x) == <<-x[1], x[2]>>

RAdd(x, y) ==
    LET g == GCD(x[2], y[2])
    IN  Rat(x[1] * (y[2] \div g) + y[1] * (x[2] \div g), (x[2] \div g) * y[2])

RSub(x, y) == RAdd(x, RNeg(y))

RMul(x, y) ==
    LET g1 == GCD(Abs(x[1]), y[2])
        g2 == GCD(Abs(y[1]), x[2])
    IN  <<(x[1] \div g1) * (y[1] \div g2), (x[2] \div g2) * (y[2] \div g1)>>

Zero == RInt(0)

----------------------------------------------------------------------------
(* Bar series: d is the sequence of bars consumed so far, bar k (from 0)   *)
(* is d[k + 1].                                                            *)

Bar(c, s) == [Close |-> c, High |-> c + s, Low |-> c - s]

Close(d, k) == d[k + 1].Close

\* the bars the source may deliver at index k
NextBars(src, k) ==
    IF k < src.flat THEN {Bar(Base, src.spread)}
    ELSE IF k < src.flat + MaxTail
         THEN {Bar(Base + src.dir * l, src.spread) : l \in src.levels}
         ELSE {}

\* rolling(window=W, min_periods=1).mean(): the mean of the rows there are
Mean_min_periods_1(sum, W, k) == Rat(sum, IF k < W - 1 THEN k + 1 ELSE W)

\* the rolling mean followed by fillna(0): 0 until W rows are seen
Mean_fillna_0(sum, W, k) == IF k < W - 1 THEN Zero ELSE Rat(sum, W)

\* series.rolling(window=W).mean() at index k, given the sum of the window:
\* NaN until W rows are seen
Mean(sum, W, k) == IF k < W - 1 THEN NaN ELSE Rat(sum, W)

\* delta.where(delta > 0, 0) at index j: the NaN of diff() at 0 becomes 0
Gain(d, j) == IF j = 0 THEN 0 ELSE Max2(Close(d, j) - Close(d, j - 1), 0)

\* -delta.where(delta < 0, 0) at index j
Loss(d, j) == IF j = 0 THEN 0 ELSE Max2(Close(d, j - 1) - Close(d, j), 0)

\* the sum of a column over the window of W rows that ends at index k, from
\* the sum over the window that ends at k - 1: the row that enters is added,
\* the row that leaves is taken away
RollClose(before, d, k, W) ==
    before + Close(d, k) - (IF k >= W THEN Close(d, k - W) ELSE 0)

RollGain(before, d, k, W) ==
    before + Gain(d, k) - (IF k >= W THEN Gain(d, k - W) ELSE 0)

RollLoss(before, d, k, W) ==
    before + Loss(d, k) - (IF k >= W THEN Loss(d, k - W) ELSE 0)

\* rs = gain / loss for gain, loss >= 0 given over a common denominator
RS(gain, loss) ==
    IF loss = 0 THEN (IF gain = 0 THEN NaN ELSE Inf) ELSE Rat(gain, loss)

\* 100 - (100 / (1 + rs)), in hundreds
RSIOf(rs) ==
    IF IsNaN(rs) THEN NaN
    ELSE IF rs = Inf THEN RInt(1)
    ELSE Rat(rs[1], rs[1] + rs[2])

\* the RSI column of main.py, main2.py and main3.py at index k, given the sums
\* of gain and loss over the window of W rows: both rolling means divide by W
RollingRSI(gain, loss, W, k) ==
    IF k < W - 1 THEN NaN ELSE RSIOf(RS(gain, loss))

\* the sums a row keeps of the windows that end at it
NoSums == [c20 |-> 0, c50 |-> 0, gain |-> 0, loss |-> 0, tr |-> 0]

Pct(x) == Rat(x, 100)

----------------------------------------------------------------------------
(* main.py                                                                 *)

\* data_with_indicators.iloc[k] after calculate_indicators
Main_calculate_indicators(d, k, prev) ==
    LET sums == [prev.sums EXCEPT !.c20  = RollClose(@, d, k, 20),
                                  !.c50  = RollClose(@, d, k, 50),
                                  !.gain = RollGain(@, d, k, 14),
                                  !.loss = RollLoss(@, d, k, 14)]
    IN  [Close |-> RInt(Close(d, k)),
         sums  |-> sums,
         SMA20 |-> Mean(sums.c20, 20, k),
         SMA50 |-> Mean(sums.c50, 50, k),
         RSI   |-> RollingRSI(sums.gain, sums.loss, 14, k)]

\* should_enter_trade without the RSI guards
Main_should_enter_trade_no_rsi(cur, prev) ==
    IF IsNaN(cur.SMA20) \/ IsNaN(cur.SMA50) \/ IsNaN(cur.RSI) THEN 0
    ELSE IF /\ Gt(cur.SMA20, cur.SMA50)
            /\ Gt(cur.Close, cur.SMA20)
            /\ Le(prev.Close, prev.SMA20) THEN 1
    ELSE IF /\ Lt(cur.SMA20, cur.SMA50)
            /\ Lt(cur.Close, cur.SMA20)
            /\ Ge(prev.Close, prev.SMA20) THEN -1
    ELSE 0

Main_should_enter_trade(cur, prev) ==
    IF IsNaN(cur.SMA20) \/ IsNaN(cur.SMA50) \/ IsNaN(cur.RSI) THEN 0
    ELSE IF /\ Gt(cur.SMA20, cur.SMA50)
            /\ Gt(cur.Close, cur.SMA20)
            /\ Le(prev.Close, prev.SMA20)
            /\ Lt(cur.RSI, Pct(70)) THEN 1
    ELSE IF /\ Lt(cur.SMA20, cur.SMA50)
            /\ Lt(cur.Close, cur.SMA20)
            /\ Ge(prev.Close, prev.SMA20)
            /\ Gt(cur.RSI, Pct(30)) THEN -1
    ELSE 0

\* should_exit_trade with "and" for "or" in both tests
Main_should_exit_trade_and(self, cur) ==
    IF self.position = 0 THEN 0
    ELSE IF self.position = 1 /\ (Gt(cur.RSI, Pct(70)) /\ Lt(cur.Close, cur.SMA20)) THEN 0
    ELSE IF self.position = -1 /\ (Lt(cur.RSI, Pct(30)) /\ Gt(cur.Close, cur.SMA20)) THEN 0
    ELSE self.position

Main_should_exit_trade(self, cur) ==
    IF self.position = 0 THEN 0
    ELSE IF self.position = 1 /\ (Gt(cur.RSI, Pct(70)) \/ Lt(cur.Close, cur.SMA20)) THEN 0
    ELSE IF self.position = -1 /\ (Lt(cur.RSI, Pct(30)) \/ Gt(cur.Close, cur.SMA20)) THEN 0
    ELSE self.position

\* price - entry_price for a long position, entry_price - price for a short one
PriceDiff(self, price) ==
    IF self.position = 1 THEN RSub(price, self.entry_price)
    ELSE RSub(self.entry_price, price)

\* the branch of execute_trade that runs
\* the branch taken if the two level comparisons were strict
Main_branch_strict(self, price, signal) ==
    IF self.position = 0 /\ signal # 0 THEN "open"
    ELSE IF self.position # 0 /\ signal = 0 THEN "signal"
    ELSE IF self.position # 0 THEN
        IF Lt(PriceDiff(self, price), RNeg(self.stop_loss)) THEN "stop"
        ELSE IF Gt(PriceDiff(self, price), self.take_profit) THEN "take"
        ELSE "none"
    ELSE "none"

Main_branch(self, price, signal) ==
    IF self.position = 0 /\ signal # 0 THEN "open"
    ELSE IF self.position # 0 /\ signal = 0 THEN "signal"
    ELSE IF self.position # 0 THEN
        IF Le(PriceDiff(self, price), RNeg(self.stop_loss)) THEN "stop"
        ELSE IF Ge(PriceDiff(self, price), self.take_profit) THEN "take"
        ELSE "none"
    ELSE "none"

\* (exit - entry) * lot_size * 100000, negated for a short position
ProfitLoss(self, exit, contract) ==
    RMul(RMul(PriceDiff(self, exit), self.lot_size), RInt(contract))

\* a record that carries the exit price as its entry_price
Main_trade_entry_is_exit(self, type, exit, pl, now) ==
    [symbol |-> self.symbol, type |-> type, entry_price |-> exit,
     exit_price |-> exit, profit_loss |-> pl, lot_size |-> self.lot_size,
     timestamp |-> now]

Main_trade(self, type, exit, pl, now) ==
    [symbol |-> self.symbol, type |-> type, entry_price |-> self.entry_price,
     exit_price |-> exit, profit_loss |-> pl, lot_size |-> self.lot_size,
     timestamp |-> now]

\* a close that forgets to reset position and entry_price
Main_close_keeps_position(self, type, exit, now) ==
    LET pl == ProfitLoss(self, exit, 100000)
    IN  [self EXCEPT !.balance = RAdd(self.balance, pl),
                     !.trades = Append(self.trades, Main_trade(self, type, exit, pl, now))]

\* balance += profit_loss; trades.append(...); position = 0; entry_price = 0
Main_close(self, type, exit, now) ==
    LET pl == ProfitLoss(self, exit, 100000)
    IN  [self EXCEPT !.balance = RAdd(self.balance, pl),
                     !.trades = Append(self.trades, Main_trade(self, type, exit, pl, now)),
                     !.position = 0,
                     !.entry_price = Zero]

Main_execute_trade(self, price, signal, now) ==
    LET br == Main_branch(self, price, signal)
        long == self.position = 1
    IN  CASE br = "open" ->
                [self EXCEPT !.position = signal, !.entry_price = price]
          [] br = "signal" ->
                Main_close(self, IF long THEN "close_long" ELSE "close_short", price, now)
          [] br = "stop" ->
                Main_close(self, IF long THEN "sl_long" ELSE "sl_short",
                           IF long THEN RSub(self.entry_price, self.stop_loss)
                                   ELSE RAdd(self.entry_price, self.stop_loss), now)
          [] br = "take" ->
                Main_close(self, IF long THEN "tp_long" ELSE "tp_short",
                           IF long THEN RAdd(self.entry_price, self.take_profit)
                                   ELSE RSub(self.entry_price, self.take_profit), now)
          [] OTHER -> self

\* the signal run() hands to execute_trade for the rows cur and prev
Main_signal(self, cur, prev) ==
    IF self.position # 0 THEN Main_should_exit_trade(self, cur)
    ELSE Main_should_enter_trade(cur, prev)

----------------------------------------------------------------------------
(* main2.py                                                                *)

Main2_calculate_indicators(d, k, prev) ==
    LET sums == [prev.sums EXCEPT !.c20  = RollClose(@, d, k, 20),
                                  !.c50  = RollClose(@, d, k, 50),
                                  !.gain = RollGain(@, d, k, 10),
                                  !.loss = RollLoss(@, d, k, 10)]
    IN  [Close |-> RInt(Close(d, k)),
         sums  |-> sums,
         SMA20 |-> Mean(sums.c20, 20, k),
         SMA50 |-> Mean(sums.c50, 50, k),
         RSI   |-> RollingRSI(sums.gain, sums.loss, 10, k)]

\* returns <<signal, lot_size>>
Main2_should_enter_trade(self, cur, prev) ==
    IF IsNaN(cur.SMA20) \/ IsNaN(cur.SMA50) \/ IsNaN(cur.RSI) THEN <<0, self.lot_size>>
    ELSE IF /\ Gt(cur.SMA20, cur.SMA50)
            /\ Gt(cur.Close, cur.SMA20)
            /\ Le(prev.Close, prev.SMA20)
            /\ Lt(cur.RSI, Pct(70)) THEN <<1, self.lot_size>>
    ELSE IF /\ Lt(cur.SMA20, cur.SMA50)
            /\ Lt(cur.Close, cur.SMA20)
            /\ Ge(prev.Close, prev.SMA20)
            /\ Gt(cur.RSI, Pct(30)) THEN <<-1, self.lot_size>>
    ELSE <<0, self.lot_size>>

\* the closing branch prints take-profit when price >= take_profit, else stop-loss
\* the closing branch guarded by an exit signal, as in main.py
Main2_branch_on_exit_signal(self, price, signal) ==
    IF self.position = 0 /\ signal # 0 THEN "open"
    ELSE IF /\ self.position # 0 /\ signal = 0
            /\ (Ge(price, self.take_profit) \/ Le(price, self.stop_loss))
         THEN (IF Ge(price, self.take_profit) THEN "take" ELSE "stop")
    ELSE "none"

Main2_branch(self, price, signal) ==
    IF self.position = 0 /\ signal # 0 THEN "open"
    ELSE IF self.position # 0 /\ (Ge(price, self.take_profit) \/ Le(price, self.stop_loss))
         THEN (IF Ge(price, self.take_profit) THEN "take" ELSE "stop")
    ELSE "none"

\* the elif branch of execute_trade
Main2_close(self, price, lot_size, now) ==
    LET pl == RMul(RMul(PriceDiff(self, price), lot_size), RInt(100000))
    IN  [self EXCEPT !.balance = RAdd(self.balance, pl),
                     !.trades = Append(self.trades,
                         [symbol |-> self.symbol, entry_price |-> self.entry_price,
                          exit_price |-> price, profit_loss |-> pl,
                          lot_size |-> lot_size, timestamp |-> now]),
                     !.position = 0,
                     !.entry_price = Zero]

Main2_open(self, price, signal, lot_size) ==
    [self EXCEPT !.position = signal, !.entry_price = price, !.lot_size = lot_size]

\* execute_trade with the elif written as a second if: the bar that opens a
\* position goes on to the closing test
Main2_execute_trade_two_ifs(self, price, signal, lot_size, now) ==
    LET br == Main2_branch(self, price, signal)
    IN  CASE br = "open" ->
                Main2_close(Main2_open(self, price, signal, lot_size), price, lot_size, now)
          [] br \in {"take", "stop"} -> Main2_close(self, price, lot_size, now)
          [] OTHER -> self

Main2_execute_trade(self, price, signal, lot_size, now) ==
    LET br == Main2_branch(self, price, signal)
    IN  CASE br = "open" -> Main2_open(self, price, signal, lot_size)
          [] br \in {"take", "stop"} -> Main2_close(self, price, lot_size, now)
          [] OTHER -> self

\* <<signal, lot_size>> run() hands to execute_trade for the rows cur and prev
Main2_signal(self, cur, prev) ==
    IF self.position = 0 THEN Main2_should_enter_trade(self, cur, prev)
    ELSE <<self.position, self.lot_size>>

----------------------------------------------------------------------------
(* main3.py                                                                *)

\* data["Close"].ewm(span=span, adjust=False).mean() at index k, from its
\* value at index k - 1
EMA(d, span, k, before) ==
    IF k = 0 THEN RInt(Close(d, 0))
    ELSE RAdd(RMul(Rat(2, span + 1), RInt(Close(d, k))),
              RMul(Rat(span - 1, span + 1), before))

\* data["TR"] at index k: the row maximum skips the NaN of shift(1) at index 0
TR(d, k) ==
    IF k = 0 THEN d[1].High - d[1].Low
    ELSE Max2(d[k + 1].High - d[k + 1].Low,
              Max2(Abs(d[k + 1].High - Close(d, k - 1)),
                   Abs(d[k + 1].Low - Close(d, k - 1))))

RollTR(before, d, k, W) ==
    before + TR(d, k) - (IF k >= W THEN TR(d, k - W) ELSE 0)

Main3_calculate_indicators(d, k, prev) ==
    LET sums == [prev.sums EXCEPT !.c20  = RollClose(@, d, k, 20),
                                  !.gain = RollGain(@, d, k, 14),
                                  !.loss = RollLoss(@, d, k, 14),
                                  !.tr   = RollTR(@, d, k, 14)]
    IN  [Close |-> RInt(Close(d, k)),
         sums  |-> sums,
         SMA   |-> Mean(sums.c20, 20, k),
         EMA   |-> EMA(d, 15, k, prev.EMA),
         RSI   |-> RollingRSI(sums.gain, sums.loss, 14, k),
         ATR   |-> Mean(sums.tr, 14, k)]

\* returns <<signal, stop_loss, take_profit>>
Main3_should_enter_trade(self, cur, prev, oversold, overbought) ==
    IF IsNaN(cur.SMA) \/ IsNaN(cur.RSI) \/ IsNaN(cur.ATR) THEN <<0, Zero, Zero>>
    ELSE LET stop_loss   == RMul(cur.ATR, Rat(3, 2))
             take_profit == RMul(stop_loss, self.risk_reward_ratio)
         IN  IF /\ Gt(cur.SMA, cur.EMA)
                /\ Lt(prev.RSI, oversold)
                /\ Gt(cur.RSI, prev.RSI) THEN <<1, stop_loss, take_profit>>
             ELSE IF /\ Lt(cur.SMA, cur.EMA)
                     /\ Gt(prev.RSI, overbought)
                     /\ Lt(cur.RSI, prev.RSI) THEN <<-1, stop_loss, take_profit>>
             ELSE <<0, Zero, Zero>>

Main3_should_exit_trade(self, cur) ==
    IF self.position = 1 /\ Gt(cur.RSI, Pct(70)) THEN 0
    ELSE IF self.position = -1 /\ Lt(cur.RSI, Pct(30)) THEN 0
    ELSE self.position

Main3_branch(self, price, signal, stop_loss, take_profit) ==
    IF self.position = 0 /\ signal # 0 THEN "open"
    ELSE IF self.position # 0 /\ signal = 0 THEN "signal"
    ELSE IF self.position # 0 THEN
        IF Le(PriceDiff(self, price), RNeg(stop_loss)) THEN "stop"
        ELSE IF Ge(PriceDiff(self, price), take_profit) THEN "take"
        ELSE "none"
    ELSE "none"

Main3_trade(self, exit, pl, now) ==
    [symbol |-> self.symbol, entry_price |-> self.entry_price,
     exit_price |-> exit, profit_loss |-> pl, lot_size |-> self.lot_size,
     timestamp |-> now]

Main3_execute_trade(self, price, signal, stop_loss, take_profit, now) ==
    LET br == Main3_branch(self, price, signal, stop_loss, take_profit)
        size == RMul(self.lot_size, RInt(self.contract_size))
    IN  CASE br = "open" ->
                [self EXCEPT !.position = signal, !.entry_price = price]
          [] br = "signal" ->
                [self EXCEPT !.balance = RAdd(self.balance,
                                              ProfitLoss(self, price, self.contract_size)),
                             !.position = 0,
                             !.entry_price = Zero]
          [] br = "stop" ->
                [self EXCEPT !.trades = Append(self.trades,
                                 Main3_trade(self, price, RMul(RNeg(stop_loss), size), now)),
                             !.position = 0]
          [] br = "take" ->
                [self EXCEPT !.trades = Append(self.trades,
                                 Main3_trade(self, price, RMul(take_profit, size), now)),
                             !.position = 0]
          [] OTHER -> self

\* <<signal, stop_loss, take_profit>> run() hands to execute_trade for the
\* rows cur and prev
Main3_signal(self, cur, prev, oversold, overbought) ==
    LET entry == Main3_should_enter_trade(self, cur, prev, oversold, overbought)
    IN  IF self.position # 0
        THEN <<Main3_should_exit_trade(self, cur), entry[2], entry[3]>>
        ELSE entry

----------------------------------------------------------------------------
(* main_revised.py                                                         *)

\* gain.ewm(span=14, min_periods=14).mean() and the same of loss at index k,
\* as <<G, L, S>>: the weighted sums G / S and L / S of the adjusted weights
\* (1 - 2/15)^j; the two means divide both by the same sum of weights
\* at index k, from p, the triple at index k - 1
Ewm(d, span, k, p) ==
    IF k = 0 THEN <<Gain(d, 0), Loss(d, 0), 1>>
    ELSE LET ng == (span + 1) * p[3] * Gain(d, k) + (span - 1) * p[1]
             nl == (span + 1) * p[3] * Loss(d, k) + (span - 1) * p[2]
             s  == (span + 1) * p[3]
             g  == GCD(GCD(ng, nl), s)
         IN  <<ng \div g, nl \div g, s \div g>>

\* rs and RSI at index k from the triple avg at index k
EwmRSI(avg, min_periods, k) ==
    IF k < min_periods - 1 THEN NaN ELSE RSIOf(RS(avg[1], avg[2]))

\* row k of data; avg holds the local series avg_gain and avg_loss
Revised_calculate_indicators(d, k, prev) ==
    LET avg  == Ewm(d, 14, k, prev.avg)
        sums == [prev.sums EXCEPT !.c20 = RollClose(@, d, k, 20),
                                  !.c50 = RollClose(@, d, k, 50)]
    IN  [Close |-> RInt(Close(d, k)),
         sums  |-> sums,
         SMA20 |-> Mean(sums.c20, 20, k),
         SMA50 |-> Mean(sums.c50, 50, k),
         avg   |-> avg,
         RSI   |-> EwmRSI(avg, 14, k)]

Revised_should_enter_trade(cur, prev) ==
    IF IsNaN(cur.SMA20) \/ IsNaN(cur.SMA50) \/ IsNaN(cur.RSI) THEN 0
    ELSE IF /\ Gt(cur.SMA20, cur.SMA50)
            /\ Gt(cur.Close, cur.SMA20)
            /\ Le(prev.Close, prev.SMA20)
            /\ Lt(cur.RSI, Pct(70)) THEN 1
    ELSE IF /\ Lt(cur.SMA20, cur.SMA50)
            /\ Lt(cur.Close, cur.SMA20)
            /\ Ge(prev.Close, prev.SMA20)
            /\ Gt(cur.RSI, Pct(30)) THEN -1
    ELSE 0

Revised_should_exit_trade(self, cur) ==
    IF self.position = 1 /\ (Gt(cur.RSI, Pct(70)) \/ Lt(cur.Close, cur.SMA20)) THEN 0
    ELSE IF self.position = -1 /\ (Lt(cur.RSI, Pct(30)) \/ Gt(cur.Close, cur.SMA20)) THEN 0
    ELSE self.position

\* balance += profit_loss; trades.append(...); position = 0; entry_price = 0
Revised_record_trade(self, trade_type, exit_price, profit_loss, now) ==
    [self EXCEPT !.balance = RAdd(self.balance, profit_loss),
                 !.trades = Append(self.trades,
                     [symbol |-> self.symbol, type |-> trade_type,
                      entry_price |-> self.entry_price, exit_price |-> exit_price,
                      profit_loss |-> profit_loss, lot_size |-> self.lot_size,
                      timestamp |-> now]),
                 !.position = 0,
                 !.entry_price = Zero]

\* the three successive assignments of trade_type in the stop/take branch
Revised_trade_type(self, price_diff) ==
    LET t1 == IF Ge(price_diff, self.take_profit) THEN "tp_long" ELSE "sl_long"
        t2 == IF self.position = -1 /\ Ge(price_diff, self.take_profit)
              THEN "tp_short" ELSE t1
    IN  IF self.position = -1 /\ Le(price_diff, RNeg(self.stop_loss))
        THEN "sl_short" ELSE t2

\* the branch of execute_trade that runs; a stop/take close is named by its trade_type
Revised_branch(self, price, signal) ==
    IF self.position = 0 /\ signal # 0 THEN "open"
    ELSE IF self.position # 0 /\ signal = 0 THEN "signal"
    ELSE IF self.position # 0 THEN
        IF \/ Le(PriceDiff(self, price), RNeg(self.stop_loss))
           \/ Ge(PriceDiff(self, price), self.take_profit)
        THEN (IF Revised_trade_type(self, PriceDiff(self, price)) \in {"tp_long", "tp_short"}
              THEN "take" ELSE "stop")
        ELSE "none"
    ELSE "none"

Revised_execute_trade(self, price, signal, now) ==
    LET br == Revised_branch(self, price, signal)
        price_diff == PriceDiff(self, price)
        exit_price == RAdd(self.entry_price,
                           IF Ge(price_diff, self.take_profit)
                           THEN self.take_profit ELSE RNeg(self.stop_loss))
    IN  CASE br = "open" ->
                [self EXCEPT !.position = signal, !.entry_price = price]
          [] br = "signal" ->
                Revised_record_trade(self,
                    IF self.position = 1 THEN "close_long" ELSE "close_short",
                    price, ProfitLoss(self, price, 100000), now)
          [] br \in {"stop", "take"} ->
                Revised_record_trade(self, Revised_trade_type(self, price_diff),
                    exit_price, ProfitLoss(self, exit_price, 100000), now)
          [] OTHER -> self

\* the signal run() hands to execute_trade for the rows cur and prev
Revised_signal(self, cur, prev) ==
    IF self.position # 0 THEN Revised_should_exit_trade(self, cur)
    ELSE Revised_should_enter_trade(cur, prev)

----------------------------------------------------------------------------
(* Construction.                                                           *)

\* QuantTradingBot.__init__ of main.py
Main_init(symbol, initial_balance, lot_size, stop_loss, take_profit) ==
    [cls |-> "main", symbol |-> symbol, balance |-> initial_balance,
     lot_size |-> lot_size, stop_loss |-> stop_loss, take_profit |-> take_profit,
     position |-> 0, entry_price |-> Zero, trades |-> <<>>]

\* QuantTradingBot.__init__ of main2.py
Main2_init(symbol, initial_balance, risk_per_trade) ==
    [cls |-> "main2", symbol |-> symbol, balance |-> initial_balance,
     risk_per_trade |-> risk_per_trade, position |-> 0, entry_price |-> Zero,
     stop_loss |-> Zero, take_profit |-> Zero, trades |-> <<>>,
     lot_size |-> Rat(1, 100)]

\* AdaptiveTradingBot.__init__ of main3.py
Main3_init(symbol, initial_balance, lot_size, risk_reward_ratio, contract_size) ==
    [cls |-> "main3", symbol |-> symbol, balance |-> initial_balance,
     lot_size |-> lot_size, risk_reward_ratio |-> risk_reward_ratio,
     position |-> 0, entry_price |-> Zero, trades |-> <<>>,
     contract_size |-> contract_size]

\* QuantTradingBot.__init__ of main_revised.py
Revised_init(symbol, initial_balance, lot_size, stop_loss, take_profit) ==
    [cls |-> "main_revised", symbol |-> symbol, balance |-> initial_balance,
     lot_size |-> lot_size, stop_loss |-> stop_loss, take_profit |-> take_profit,
     position |-> 0, entry_price |-> Zero, trades |-> <<>>]

\* the lot sizes an engine is constructed with
LotSizes == {Rat(1, 100)}

\* the <<stop_loss, take_profit>> a fixed-risk engine is constructed with
RiskPairs == {<<RInt(30), RInt(30)>>, <<RInt(5), RInt(20)>>, <<Zero, Zero>>}

\* the <<oversold, overbought>> the clustering may return, in hundreds
ThresholdPairs == {<<Pct(30), Pct(45)>>, <<Pct(55), Pct(70)>>}

\* the engines of class cls that the model constructs
Engines(cls) ==
    CASE cls = "main" ->
           {Main_init("EURUSD", RInt(10000), l, r[1], r[2]) : l \in LotSizes, r \in RiskPairs}
      [] cls = "main2" ->
           {Main2_init("EURUSD", RInt(10000), Rat(1, 100))}
      [] cls = "main3" ->
           {Main3_init("EURUSD", RInt(10000), l, RInt(2), 100000) : l \in LotSizes}
      [] cls = "main_revised" ->
           {Revised_init("EURUSD", RInt(10000), l, r[1], r[2]) : l \in LotSizes, r \in RiskPairs}

\* the columns of the frame the caller loads
BarColumns == {"Close", "High", "Low"}

\* the columns calculate_indicators of main_revised.py assigns
Revised_columns == {"SMA20", "SMA50", "RSI"}

\* the columns of the caller's frame once run() has computed the indicators:
\* main_revised.py assigns them on price_data itself, the other classes on
\* price_data.copy()
AfterIndicators(cls, columns) ==
    IF cls = "main_revised" THEN columns \cup Revised_columns ELSE columns

\* the bar sources an engine of class cls is run on: only main3.py reads High and Low
Sources(cls) ==
    [dir : {1, -1},
     columns : {BarColumns},
     flat : FlatLens,
     spread : IF cls = "main3" THEN Spreads ELSE {0},
     levels : IF cls = "main3" THEN {Levels3} ELSE {Levels}]

\* row k of data_with_indicators, from row k - 1
Row(cls, d, k, prev) ==
    CASE cls = "main"  -> Main_calculate_indicators(d, k, prev)
      [] cls = "main2" -> Main2_calculate_indicators(d, k, prev)
      [] cls = "main3" -> Main3_calculate_indicators(d, k, prev)
      [] cls = "main_revised" -> Revised_calculate_indicators(d, k, prev)

\* no row read yet
NoRow == [sums |-> NoSums, EMA |-> NaN, avg |-> <<0, 0, 1>>]

\* the frame of run() before it is called; row is the last row the loop has
\* read (current_row) and prev the one before it (previous_row)
NewRun ==
    [pc |-> "new", data |-> <<>>, row |-> NoRow, prev |-> NoRow,
     oversold |-> NaN, overbought |-> NaN]

NewObs(self) ==
    [kind |-> "new", bar |-> -1, price |-> Zero, signal |-> 0, entry |-> 0,
     sl |-> Zero, tp |-> Zero, before |-> self,
     entry_bar |-> -1, entry_sl |-> Zero, entry_tp |-> Zero,
     spans |-> <<>>, initial_balance |-> self.balance]

----------------------------------------------------------------------------
(* One pass of the loop of run().                                          *)

\* the arguments run() hands to execute_trade for the rows cur and prev, and
\* entry, what should_enter_trade returns for them
Args(self, r, cur, prev) ==
    CASE self.cls = "main" ->
           [price |-> cur.Close, signal |-> Main_signal(self, cur, prev),
            entry |-> Main_should_enter_trade(cur, prev),
            sl |-> self.stop_loss, tp |-> self.take_profit, lot |-> self.lot_size]
      [] self.cls = "main2" ->
           LET sg == Main2_signal(self, cur, prev)
           IN  [price |-> cur.Close, signal |-> sg[1],
                entry |-> Main2_should_enter_trade(self, cur, prev)[1],
                sl |-> self.stop_loss, tp |-> self.take_profit, lot |-> sg[2]]
      [] self.cls = "main3" ->
           LET sg == Main3_signal(self, cur, prev, r.oversold, r.overbought)
           IN  [price |-> cur.Close, signal |-> sg[1],
                entry |-> Main3_should_enter_trade(self, cur, prev, r.oversold,
                                                   r.overbought)[1],
                sl |-> sg[2], tp |-> sg[3], lot |-> self.lot_size]
      [] self.cls = "main_revised" ->
           [price |-> cur.Close, signal |-> Revised_signal(self, cur, prev),
            entry |-> Revised_should_enter_trade(cur, prev),
            sl |-> self.stop_loss, tp |-> self.take_profit, lot |-> self.lot_size]

\* the branch of execute_trade taken on these arguments
Branch(self, a) ==
    CASE self.cls = "main"  -> Main_branch(self, a.price, a.signal)
      [] self.cls = "main2" -> Main2_branch(self, a.price, a.signal)
      [] self.cls = "main3" -> Main3_branch(self, a.price, a.signal, a.sl, a.tp)
      [] self.cls = "main_revised" -> Revised_branch(self, a.price, a.signal)

\* self after execute_trade on these arguments
Execute(self, a, now) ==
    CASE self.cls = "main"  -> Main_execute_trade(self, a.price, a.signal, now)
      [] self.cls = "main2" -> Main2_execute_trade(self, a.price, a.signal, a.lot, now)
      [] self.cls = "main3" -> Main3_execute_trade(self, a.price, a.signal, a.sl, a.tp, now)
      [] self.cls = "main_revised" -> Revised_execute_trade(self, a.price, a.signal, now)

\* the record of a bar step: what execute_trade was handed, which branch it
\* took, the engine before the step, and for each trade recorded the bar
\* its position was opened on, the bar it was closed on and its side
Observe(o, self, new, a, kind, i) ==
    [o EXCEPT !.kind = kind, !.bar = i, !.price = a.price, !.signal = a.signal,
              !.entry = a.entry,
              !.sl = a.sl, !.tp = a.tp, !.before = self,
              !.entry_bar = IF kind = "open" THEN i ELSE @,
              !.entry_sl = IF kind = "open" THEN a.sl ELSE @,
              !.entry_tp = IF kind = "open" THEN a.tp ELSE @,
              !.spans = IF Len(new.trades) > Len(self.trades)
                        THEN Append(@, <<o.entry_bar, i, self.position>>) ELSE @]

\* the stamps datetime.now() may put on the trade a step records
Stamps(kind) == IF kind \in {"signal", "stop", "take"} THEN Times ELSE {0}

ReadBranch(self, r, i, d, cur, a) ==
    [i |-> i, run |-> [r EXCEPT !.data = d, !.row = cur, !.prev = r.row], a |-> a,
     kind |-> IF i = 0 THEN "skip" ELSE Branch(self, a)]

ReadArgs(self, r, i, d, cur) == ReadBranch(self, r, i, d, cur, Args(self, r, cur, r.row))

ReadRow(self, r, i, d) == ReadArgs(self, r, i, d, Row(self.cls, d, i, r.row))

\* index i of the loop of run(): bar i is appended to the frame, its row of
\* indicators computed, and the arguments and the branch of execute_trade
\* determined
Read(self, r, bar) == ReadRow(self, r, Len(r.data), Append(r.data, bar))

Passed(self, o, p, new) ==
    [bot |-> new, run |-> p.run, obs |-> Observe(o, self, new, p.a, p.kind, p.i)]

\* the engine and the record after execute_trade; index 0 is skipped
Pass(self, o, p, now) ==
    IF p.i = 0
    THEN [bot |-> self, run |-> p.run,
          obs |-> [o EXCEPT !.kind = "skip", !.bar = 0, !.before = self]]
    ELSE Passed(self, o, p, Execute(self, p.a, now))

Commit(b, s) ==
    /\ bots' = [bots EXCEPT ![b] = s.bot]
    /\ runs' = [runs EXCEPT ![b] = s.run]
    /\ obs'  = [obs EXCEPT ![b] = s.obs]

StepRead(b, p) ==
    \E now \in Stamps(p.kind) : Commit(b, Pass(bots[b], obs[b], p, now))

Step(b) ==
    /\ runs[b].pc = "loop"
    /\ \E bar \in NextBars(source[b], Len(runs[b].data)) :
          StepRead(b, Read(bots[b], runs[b], bar))
    /\ UNCHANGED source

\* run() of main.py is called: indicators are computed on a copy of the series
\* (so are they in main2.py and main3.py)
Main_run(b) ==
    /\ bots[b].cls = "main"
    /\ runs[b].pc = "new"
    /\ runs' = [runs EXCEPT ![b].pc = "loop"]
    /\ UNCHANGED <<bots, source, obs>>

Main2_run(b) ==
    /\ bots[b].cls = "main2"
    /\ runs[b].pc = "new"
    /\ runs' = [runs EXCEPT ![b].pc = "loop"]
    /\ UNCHANGED <<bots, source, obs>>

\* run() of main3.py is called: dynamic_rsi_threshold fits KMeans to the RSI column
Main3_run(b) ==
    /\ bots[b].cls = "main3"
    /\ runs[b].pc = "new"
    /\ \E th \in ThresholdPairs :
          runs' = [runs EXCEPT ![b].pc = "loop", ![b].oversold = th[1],
                               ![b].overbought = th[2]]
    /\ UNCHANGED <<bots, source, obs>>

\* run() of main_revised.py is called: calculate_indicators gets price_data itself
Revised_run(b) ==
    /\ bots[b].cls = "main_revised"
    /\ runs[b].pc = "new"
    /\ runs' = [runs EXCEPT ![b].pc = "loop"]
    /\ source' = [source EXCEPT ![b].columns = AfterIndicators("main_revised", @)]
    /\ UNCHANGED <<bots, obs>>

Main_step(b) == bots[b].cls = "main" /\ Step(b)

Main2_step(b) == bots[b].cls = "main2" /\ Step(b)

Main3_step(b) == bots[b].cls = "main3" /\ Step(b)

Revised_step(b) == bots[b].cls = "main_revised" /\ Step(b)

----------------------------------------------------------------------------
(* One engine of any of the four classes, run once over one series.        *)

Init ==
    \E cls \in Variants :
      \E e \in Engines(cls), src \in Sources(cls) :
        /\ bots = <<e>>
        /\ runs = <<NewRun>>
        /\ source = <<src>>
        /\ obs = <<NewObs(e)>>

Next ==
    \/ Main_run(1)
    \/ Main2_run(1)
    \/ Main3_run(1)
    \/ Revised_run(1)
    \/ Main_step(1)
    \/ Main2_step(1)
    \/ Main3_step(1)
    \/ Revised_step(1)

Spec == Init /\ [][Next]_vars

----------------------------------------------------------------------------
(* Two engines of one class, constructed with the same arguments, each run *)
(* once over the same series.  Bar i is read by both before bar i + 1 is   *)
(* read by either; each engine reads the clock for itself.  KMeans is      *)
(* seeded (random_state=42), so on the same series both runs of main3.py   *)
(* get the same thresholds.                                                *)

TwinInit ==
    \E cls \in Variants :
      \E e \in Engines(cls), src \in Sources(cls) :
        /\ bots = <<e, e>>
        /\ runs = <<NewRun, NewRun>>
        /\ source = <<src, src>>
        /\ obs = <<NewObs(e), NewObs(e)>>

Twin_run ==
    /\ runs[1].pc = "new"
    /\ \E th \in (IF bots[1].cls = "main3" THEN ThresholdPairs ELSE {<<NaN, NaN>>}) :
          runs' = [b \in {1, 2} |->
                     [runs[b] EXCEPT !.pc = "loop", !.oversold = th[1],
                                     !.overbought = th[2]]]
    /\ source' = [b \in {1, 2} |->
                    [source[b] EXCEPT !.columns = AfterIndicators(bots[b].cls, @)]]
    /\ UNCHANGED <<bots, obs>>

TwinCommit(s1, s2) ==
    /\ bots' = <<s1.bot, s2.bot>>
    /\ runs' = <<s1.run, s2.run>>
    /\ obs'  = <<s1.obs, s2.obs>>

TwinStepRead(p1, p2) ==
    \E now1 \in Stamps(p1.kind), now2 \in Stamps(p2.kind) :
        TwinCommit(Pass(bots[1], obs[1], p1, now1), Pass(bots[2], obs[2], p2, now2))

Twin_step ==
    /\ runs[1].pc = "loop"
    /\ \E bar \in NextBars(source[1], Len(runs[1].data)) :
          TwinStepRead(Read(bots[1], runs[1], bar), Read(bots[2], runs[2], bar))
    /\ UNCHANGED source

TwinNext == Twin_run \/ Twin_step

TwinSpec == TwinInit /\ [][TwinNext]_vars

----------------------------------------------------------------------------
(* Two engines of one class, constructed with the same arguments, each run *)
(* over a series of its own; the two series agree on their first bars.     *)
(* Bar i is read by both before bar i + 1 is read by either, and the pair  *)
(* is followed up to and including the first bar on which the two series   *)
(* differ.  dynamic_rsi_threshold of main3.py fits KMeans to the whole RSI *)
(* column, the rows after the common bars included, so each run gets       *)
(* thresholds of its own.                                                  *)

\* the rising series whose first moving bars come just before the
\* moving average of the class is defined
PrefixSources(cls) ==
    {src \in Sources(cls) :
        /\ src.dir = 1
        /\ src.flat = (IF cls = "main3" THEN FastWindow ELSE SlowWindow) - 3}

PrefixInit ==
    \E cls \in Variants :
      \E e \in Engines(cls), src \in PrefixSources(cls) :
        /\ bots = <<e, e>>
        /\ runs = <<NewRun, NewRun>>
        /\ source = <<src, src>>
        /\ obs = <<NewObs(e), NewObs(e)>>

Prefix_run ==
    /\ runs[1].pc = "new"
    /\ \E th1, th2 \in (IF bots[1].cls = "main3" THEN ThresholdPairs ELSE {<<NaN, NaN>>}) :
          runs' = <<[runs[1] EXCEPT !.pc = "loop", !.oversold = th1[1],
                                    !.overbought = th1[2]],
                    [runs[2] EXCEPT !.pc = "loop", !.oversold = th2[1],
                                    !.overbought = th2[2]]>>
    /\ source' = [b \in {1, 2} |->
                    [source[b] EXCEPT !.columns = AfterIndicators(bots[b].cls, @)]]
    /\ UNCHANGED <<bots, obs>>

Prefix_step ==
    /\ runs[1].pc = "loop"
    /\ runs[1].data = runs[2].data
    /\ \E bar1 \in NextBars(source[1], Len(runs[1].data)),
          bar2 \in NextBars(source[2], Len(runs[2].data)) :
          TwinStepRead(Read(bots[1], runs[1], bar1), Read(bots[2], runs[2], bar2))
    /\ UNCHANGED source

PrefixNext == Prefix_run \/ Prefix_step

PrefixSpec == PrefixInit /\ [][PrefixNext]_vars

----------------------------------------------------------------------------
(* Two engines of one class, constructed with the same arguments, each run *)
(* over a series of its own (one rising, one falling); their bar steps are *)
(* interleaved in any order.  Instances 3 and 4 are instances 1 and 2 run  *)
(* alone: instance b + 2 reads the bars and the clock that instance b      *)
(* reads, and no step of the other instance comes in between.  Each series *)
(* is followed over its flat stretch and PairTail bars more.               *)

PairTail == 4

\* the series of the class with the given direction whose first moving bars
\* come just before the moving average of the class is defined
PairSource(cls, dir) ==
    CHOOSE src \in Sources(cls) :
        /\ src.dir = dir
        /\ src.flat = (IF cls = "main3" THEN FastWindow ELSE SlowWindow) - 3

\* one engine of each class; the fixed-risk ones with the levels 30 / 30
PairEngines(cls) ==
    {e \in Engines(cls) : cls \in {"main", "main_revised"} => e.take_profit = RInt(30)}

PairInit ==
    \E cls \in Variants :
      \E e \in PairEngines(cls) :
        /\ bots = <<e, e, e, e>>
        /\ runs = <<NewRun, NewRun, NewRun, NewRun>>
        /\ source = <<PairSource(cls, 1), PairSource(cls, -1),
                       PairSource(cls, 1), PairSource(cls, -1)>>
        /\ obs = <<NewObs(e), NewObs(e), NewObs(e), NewObs(e)>>

\* the engines after a step of instance b, were trades a list of the class
Own_class_trades(engines, b, new) ==
    [x \in DOMAIN engines |->
        IF x = b THEN new ELSE [engines[x] EXCEPT !.trades = new.trades]]

\* the engines after a step of instance b: every attribute a step assigns
\* is an attribute of self, created in __init__
Own(engines, b, new) == [engines EXCEPT ![b] = new]

Pair_run(b) ==
    /\ runs[b].pc = "new"
    /\ \E th \in (IF bots[b].cls = "main3" THEN ThresholdPairs ELSE {<<NaN, NaN>>}) :
          runs' = [runs EXCEPT ![b] = [@ EXCEPT !.pc = "loop", !.oversold = th[1],
                                                !.overbought = th[2]],
                               ![b + 2] = [@ EXCEPT !.pc = "loop", !.oversold = th[1],
                                                    !.overbought = th[2]]]
    /\ source' = [source EXCEPT ![b].columns = AfterIndicators(bots[b].cls, @),
                                ![b + 2].columns = AfterIndicators(bots[b].cls, @)]
    /\ UNCHANGED <<bots, obs>>

PairCommit(b, s, t) ==
    /\ bots' = Own(SubSeq(bots, 1, 2), b, s.bot) \o [SubSeq(bots, 3, 4) EXCEPT ![b] = t.bot]
    /\ runs' = [runs EXCEPT ![b] = s.run, ![b + 2] = t.run]
    /\ obs'  = [obs EXCEPT ![b] = s.obs, ![b + 2] = t.obs]

PairStepRead(b, p, q) ==
    \E now \in Stamps(p.kind) :
        PairCommit(b, Pass(bots[b], obs[b], p, now), Pass(bots[b + 2], obs[b + 2], q, now))

Pair_step(b) ==
    /\ runs[b].pc = "loop"
    /\ Len(runs[b].data) < source[b].flat + PairTail
    /\ \E bar \in NextBars(source[b], Len(runs[b].data)) :
          PairStepRead(b, Read(bots[b], runs[b], bar), Read(bots[b + 2], runs[b + 2], bar))
    /\ UNCHANGED source

PairNext == Pair_run(1) \/ Pair_run(2) \/ Pair_step(1) \/ Pair_step(2)

PairSpec == PairInit /\ [][PairNext]_vars

----------------------------------------------------------------------------
(* One engine on which run() is called twice.  The loop of run() ends with *)
(* the last bar and run() returns; nothing follows the loop.  The second   *)
(* call gets the series again and is followed over its first AgainBars     *)
(* bars.                                                                   *)

AgainBars == 3

\* the loop of run() has passed over the last bar
Exhausted(b) == NextBars(source[b], Len(runs[b].data)) = {}

\* run() returns: the record keeps the engine it leaves behind
Again_return(b) ==
    /\ runs[b].pc = "loop"
    /\ Exhausted(b)
    /\ runs' = [runs EXCEPT ![b].pc = "done"]
    /\ obs' = [obs EXCEPT ![b].kind = "return", ![b].before = bots[b]]
    /\ UNCHANGED <<bots, source>>

\* the engine a later call of run() would start from if run() began by
\* resetting position, entry_price and trades
Again_fresh(self) == [self EXCEPT !.position = 0, !.entry_price = Zero, !.trades = <<>>]

\* the engine a later call of run() starts from: run() resets no attribute
Again_self(self) == self

\* run() is called again on the same instance: a new frame, new thresholds
Again_run(b) ==
    /\ runs[b].pc = "done"
    /\ \E th \in (IF bots[b].cls = "main3" THEN ThresholdPairs ELSE {<<NaN, NaN>>}) :
          runs' = [runs EXCEPT ![b] = [NewRun EXCEPT !.pc = "again", !.oversold = th[1],
                                                     !.overbought = th[2]]]
    /\ bots' = [bots EXCEPT ![b] = Again_self(@)]
    /\ UNCHANGED <<source, obs>>

Again_step(b) ==
    /\ runs[b].pc = "again"
    /\ Len(runs[b].data) < AgainBars
    /\ \E bar \in NextBars(source[b], Len(runs[b].data)) :
          StepRead(b, Read(bots[b], runs[b], bar))
    /\ UNCHANGED source

AgainNext == Next \/ Again_return(1) \/ Again_run(1) \/ Again_step(1)

AgainSpec == Init /\ [][AgainNext]_vars

----------------------------------------------------------------------------
(* One engine whose constructor was handed any sizes, positive or not.     *)

AnyLotSizes == LotSizes \cup {Zero, Rat(-1, 100)}

AnyContractSizes == {100000, 0}

AnyEngines(cls) ==
    CASE cls = "main" ->
           {Main_init("EURUSD", RInt(10000), lot, RInt(5), RInt(20)) : lot \in AnyLotSizes}
      [] cls = "main2" -> {Main2_init("EURUSD", RInt(10000), Rat(1, 100))}
      [] cls = "main3" ->
           {Main3_init("EURUSD", RInt(10000), lot, RInt(2), c) :
                lot \in AnyLotSizes, c \in AnyContractSizes}
      [] cls = "main_revised" ->
           {Revised_init("EURUSD", RInt(10000), lot, RInt(5), RInt(20)) : lot \in AnyLotSizes}

AnyInit ==
    \E cls \in Variants :
      \E e \in AnyEngines(cls), src \in Sources(cls) :
        /\ bots = <<e>>
        /\ runs = <<NewRun>>
        /\ source = <<src>>
        /\ obs = <<NewObs(e)>>

AnySpec == AnyInit /\ [][Next]_vars

----------------------------------------------------------------------------
(* What a step is observed to have done.                                   *)

Bots == DOMAIN bots

\* the engine has passed over a bar while holding a position
Held(b) == obs[b].kind \in {"signal", "stop", "take", "none"} /\ obs[b].before.position # 0

\* the last step of engine b took one of these branches of execute_trade
Took(b, kinds) == obs[b].kind \in kinds

\* the trade the last step appended
LastTrade(b) == bots[b].trades[Len(bots[b].trades)]

\* the last step appended a trade
Appended(b) == Len(bots[b].trades) = Len(obs[b].before.trades) + 1

\* contract size the class multiplies by
ContractOf(self) == IF self.cls = "main3" THEN self.contract_size ELSE 100000

RECURSIVE SumProfitLoss(_)
SumProfitLoss(trades) ==
    IF trades = <<>> THEN Zero
    ELSE RAdd(SumProfitLoss(SubSeq(trades, 1, Len(trades) - 1)),
              trades[Len(trades)].profit_loss)

----------------------------------------------------------------------------
(* C1: at every moment the balance equals the initial balance plus the sum *)
(* of profit_loss over the trades in the ledger, in every class.           *)
(* main3.py breaks it both ways: a signal close changes the balance and    *)
(* appends nothing, a stop-loss or take-profit close appends a trade and    *)
(* leaves the balance alone.                                               *)
C1_BalanceIsLedgerSum ==
    \A b \in Bots :
        bots[b].balance = RAdd(obs[b].initial_balance, SumProfitLoss(bots[b].trades))

----------------------------------------------------------------------------
(* C2: the position is one of Flat (0), Long (1), Short (-1); a position   *)
(* is opened only from Flat; the spans of bars of the recorded trades do   *)
(* not overlap: a later trade is entered strictly after the earlier one    *)
(* was closed.                                                             *)
C2_OnePosition ==
    \A b \in Bots :
        /\ bots[b].position \in {0, 1, -1}
        /\ Took(b, {"open"}) => obs[b].before.position = 0
        /\ (bots[b].position # 0 /\ bots[b].position # obs[b].before.position)
              => obs[b].before.position = 0
        /\ \A j \in DOMAIN obs[b].spans :
              /\ obs[b].spans[j][1] < obs[b].spans[j][2]
              /\ \A k \in DOMAIN obs[b].spans :
                    j < k => obs[b].spans[j][2] < obs[b].spans[k][1]

\* a second trade has been recorded, by a class that records every close
C2_Witness ==
    \E b \in Bots : bots[b].cls = "main" /\ Len(obs[b].spans) = 2
                      /\ Len(bots[b].trades) = 2

----------------------------------------------------------------------------
(* C3: when a stop-loss or take-profit closes a position, the recorded     *)
(* exit price is the trigger price (entry - S / entry + T for Long, entry  *)
(* + S / entry - T for Short), not the bar's close; main.py, main3.py and  *)
(* main_revised.py.  S and T are the thresholds execute_trade compared     *)
(* against.  main3.py records the close; main_revised.py adds T and        *)
(* subtracts S whatever the side.                                          *)
TriggerPrice(self, kind, sl, tp) ==
    IF kind = "stop"
    THEN (IF self.position = 1 THEN RSub(self.entry_price, sl)
                               ELSE RAdd(self.entry_price, sl))
    ELSE (IF self.position = 1 THEN RAdd(self.entry_price, tp)
                               ELSE RSub(self.entry_price, tp))

C3_ExitAtTrigger ==
    \A b \in Bots :
        (bots[b].cls \in {"main", "main3", "main_revised"}
            /\ Took(b, {"stop", "take"}) /\ Appended(b))
        => LastTrade(b).exit_price
              = TriggerPrice(obs[b].before, obs[b].kind, obs[b].sl, obs[b].tp)

----------------------------------------------------------------------------
(* C4: in main3.py the stop-loss (1.5 x ATR of the entry bar) and the      *)
(* take-profit (stop-loss x risk_reward_ratio) a position is checked       *)
(* against on later bars are the ones computed on the bar that opened it.  *)
(* run() hands execute_trade what should_enter_trade returns for the       *)
(* current bar, which is (0, 0) on a bar without an entry signal.          *)
C4_LevelsFixedAtEntry ==
    \A b \in Bots :
        (bots[b].cls = "main3" /\ Held(b))
        => (obs[b].sl = obs[b].entry_sl /\ obs[b].tp = obs[b].entry_tp)

----------------------------------------------------------------------------
(* C5: on a bar where a position is open the exits are tried in the order  *)
(* signal, stop-loss, take-profit.  If the exit rule returns Flat the      *)
(* position closes at the bar's close even when a threshold is reached     *)
(* too; a stop-loss close happens only when the exit signal is hold; a     *)
(* take-profit close only when the stop-loss did not trigger.  main.py,    *)
(* main3.py, main_revised.py (main2.py has no exit rule).  main_revised.py *)
(* tests the take-profit first: with stop_loss = take_profit = 0 a bar     *)
(* that closes at the entry price is recorded as a take-profit.            *)
ExitRuleClasses == {"main", "main3", "main_revised"}

StopReached(b) == Le(PriceDiff(obs[b].before, obs[b].price), RNeg(obs[b].sl))

TakeReached(b) == Ge(PriceDiff(obs[b].before, obs[b].price), obs[b].tp)

C5_ExitOrder ==
    \A b \in Bots :
        (bots[b].cls \in ExitRuleClasses /\ Held(b))
        => /\ obs[b].signal = 0
                => /\ Took(b, {"signal"})
                   /\ bots[b].position = 0
                   /\ bots[b].balance
                        = RAdd(obs[b].before.balance,
                               ProfitLoss(obs[b].before, obs[b].price,
                                          ContractOf(obs[b].before)))
                   /\ Appended(b) => LastTrade(b).exit_price = obs[b].price
           /\ Took(b, {"stop"}) => (obs[b].signal # 0 /\ StopReached(b))
           /\ Took(b, {"take"})
                => (obs[b].signal # 0 /\ ~StopReached(b) /\ TakeReached(b))
           /\ (obs[b].signal # 0 /\ StopReached(b)) => Took(b, {"stop"})

----------------------------------------------------------------------------
(* C6: a bar step makes at most one transition, Flat -> Open or            *)
(* Open -> Flat.  A bar that opens a position appends no trade, a bar that *)
(* appends a trade leaves the engine Flat (no re-entry on the closing      *)
(* bar), and the ledger grows by at most one trade per bar.                *)
C6_OneTransitionPerBar ==
    \A b \in Bots :
        LET was == obs[b].before
            now == bots[b]
        IN  /\ Len(now.trades) \in {Len(was.trades), Len(was.trades) + 1}
            /\ SubSeq(now.trades, 1, Len(was.trades)) = was.trades
            /\ (was.position = 0 /\ now.position # 0) => now.trades = was.trades
            /\ was.position # 0 => now.position \in {was.position, 0}
            /\ Appended(b) => (was.position # 0 /\ now.position = 0)

\* a position has been closed on a bar, and a trade recorded for it
C6_Witness ==
    \E b \in Bots : /\ bots[b].cls = "main2" /\ Appended(b)
                      /\ obs[b].before.position # 0 /\ bots[b].position = 0

----------------------------------------------------------------------------
(* C7: every trade in the ledger satisfies profit_loss = (exit_price -     *)
(* entry_price) x lot_size x contract size when the position was Long, and *)
(* the negation when it was Short, on the prices of that same record,      *)
(* whatever closed it, in every class.  In main3.py a stop-loss or         *)
(* take-profit trade stores the bar's close as exit_price and the          *)
(* threshold times the size as profit_loss.                                *)
C7_ProfitLossOfRecord ==
    \A b \in Bots :
        \A j \in DOMAIN bots[b].trades :
            LET t    == bots[b].trades[j]
                side == obs[b].spans[j][3]
                diff == IF side = 1 THEN RSub(t.exit_price, t.entry_price)
                                    ELSE RSub(t.entry_price, t.exit_price)
            IN  t.profit_loss
                  = RMul(RMul(diff, t.lot_size), RInt(ContractOf(bots[b])))

----------------------------------------------------------------------------
(* C8: while the series is shorter than the largest window the entry rule  *)
(* reads (50 for the SMA20/SMA50 classes, 20 in main3.py) no position is   *)
(* opened: the position is Flat, the ledger empty, the balance the initial *)
(* one.                                                                    *)
LargestWindow(cls) == IF cls = "main3" THEN FastWindow ELSE SlowWindow

C8_NoTradeBeforeWarmUp ==
    \A b \in Bots :
        Len(runs[b].data) < LargestWindow(bots[b].cls)
        => /\ bots[b].position = 0
           /\ bots[b].trades = <<>>
           /\ bots[b].balance = obs[b].initial_balance

\* the loop has read the last bar of a series one bar short of the slow
\* window, the close is off the fast average, and nothing was opened
C8_Witness ==
    \E b \in Bots :
        /\ bots[b].cls \in {"main", "main2", "main_revised"}
        /\ Len(runs[b].data) = SlowWindow - 1
        /\ Took(b, {"none"})
        /\ IsFinite(runs[b].row.SMA20) /\ IsNaN(runs[b].row.SMA50)
        /\ IsFinite(runs[b].row.RSI)
        /\ Gt(runs[b].row.Close, runs[b].row.SMA20)
        /\ bots[b].position = 0

----------------------------------------------------------------------------
(* C9: two freshly constructed engines with the same configuration, run    *)
(* over the same series, end with the same ledger (as many trades, every   *)
(* field of every trade equal, the timestamp too) and the same balance.    *)
(* The timestamp of a trade is datetime.now() at the moment it is          *)
(* recorded, so the ledgers of two runs differ in it.                      *)
C9_TwinLedgersEqual ==
    /\ bots[1].trades = bots[Len(bots)].trades
    /\ bots[1].balance = bots[Len(bots)].balance

----------------------------------------------------------------------------
(* C10: an engine with a non-positive lot size or contract size is         *)
(* rejected by the constructor, so none ever reaches run().  No            *)
(* constructor checks its arguments: such an engine is built and run.      *)
ValidSizes(self) == Gt(self.lot_size, Zero) /\ ContractOf(self) > 0

C10_InvalidNeverRuns ==
    \A b \in Bots : runs[b].pc = "loop" => ValidSizes(bots[b])

----------------------------------------------------------------------------
(* C11: at every bar where the RSI is computed over a full window its      *)
(* value lies in [0, 100]; it is exactly 100 when the average loss of the  *)
(* window is zero, the flat window (average gain zero too) included, which *)
(* must not give an undefined value; it is exactly 0 when the average gain *)
(* is zero and the average loss positive.  The RSI is held in hundreds.    *)
(* No class special-cases the division: on a flat window rs = 0 / 0 is NaN *)
(* and so is the RSI.                                                      *)
RSIWindow(cls) == IF cls = "main2" THEN 10 ELSE 14

\* the sums the two averages of the window are taken from, up to the one
\* positive factor they share
WindowGain(b) ==
    IF bots[b].cls = "main_revised" THEN runs[b].row.avg[1] ELSE runs[b].row.sums.gain

WindowLoss(b) ==
    IF bots[b].cls = "main_revised" THEN runs[b].row.avg[2] ELSE runs[b].row.sums.loss

C11_RSIBounded ==
    \A b \in Bots :
        Len(runs[b].data) >= RSIWindow(bots[b].cls)
        => /\ IsFinite(runs[b].row.RSI)
           /\ Ge(runs[b].row.RSI, Zero) /\ Le(runs[b].row.RSI, Pct(100))
           /\ WindowLoss(b) = 0 => runs[b].row.RSI = Pct(100)
           /\ (WindowGain(b) = 0 /\ WindowLoss(b) > 0) => runs[b].row.RSI = Zero

----------------------------------------------------------------------------
(* C12: while a position is open the exit rule returns Flat for a Long     *)
(* exactly when RSI > 70 or close < SMA20, for a Short exactly when        *)
(* RSI < 30 or close > SMA20, and the side of the position (hold)          *)
(* otherwise; in every class.                                              *)
\* the 20-row moving average of the row the last step read
FastTrend(b) ==
    IF bots[b].cls = "main3" THEN runs[b].row.SMA ELSE runs[b].row.SMA20

\* Flat on the RSI guard or on the close against the fast average
CrossExit(side, rsi, close, fast) ==
    IF side = 1 /\ (Gt(rsi, Pct(70)) \/ Lt(close, fast)) THEN 0
    ELSE IF side = -1 /\ (Lt(rsi, Pct(30)) \/ Gt(close, fast)) THEN 0
    ELSE side

\* Flat on the RSI guard alone
GuardExit(side, rsi) ==
    IF side = 1 /\ Gt(rsi, Pct(70)) THEN 0
    ELSE IF side = -1 /\ Lt(rsi, Pct(30)) THEN 0
    ELSE side

C12_ExitRuleEveryClass ==
    \A b \in Bots :
        Held(b) => obs[b].signal = CrossExit(obs[b].before.position, runs[b].row.RSI,
                                             runs[b].row.Close, FastTrend(b))

(* C12, as the code has it: the rule above is the exit rule of main.py and *)
(* main_revised.py; the exit rule of main3.py returns Flat on the RSI      *)
(* guard alone (Long: RSI > 70, Short: RSI < 30) and never reads the       *)
(* moving average; main2.py has no exit rule, run() hands execute_trade    *)
(* the side of the position.                                               *)
C12_ExitRule ==
    \A b \in Bots :
        Held(b) =>
            obs[b].signal =
                CASE bots[b].cls \in {"main", "main_revised"} ->
                        CrossExit(obs[b].before.position, runs[b].row.RSI,
                                  runs[b].row.Close, FastTrend(b))
                  [] bots[b].cls = "main3" ->
                        GuardExit(obs[b].before.position, runs[b].row.RSI)
                  [] bots[b].cls = "main2" -> obs[b].before.position

\* a Long of main.py is told to exit by the close alone, its RSI within the guard
C12_Witness ==
    \E b \in Bots :
        /\ Held(b)
        /\ bots[b].cls = "main" /\ obs[b].before.position = 1
        /\ obs[b].signal = 0 /\ ~Gt(runs[b].row.RSI, Pct(70))

----------------------------------------------------------------------------
(* C13: in the crossover classes (main.py, main2.py, main_revised.py)      *)
(* should_enter_trade returns Long exactly when SMA20 > SMA50, close >     *)
(* SMA20, previous close <= previous SMA20 and RSI < 70; Short exactly     *)
(* when SMA20 < SMA50, close < SMA20, previous close >= previous SMA20 and *)
(* RSI > 30; Flat otherwise.  The two are never both satisfied, and the    *)
(* result is the same whether a position is open or not.                   *)
CrossoverClasses == {"main", "main2", "main_revised"}

\* the loop has passed over a bar and evaluated its rules
Stepped(b) == obs[b].kind \notin {"new", "skip"}

LongCross(cur, prev) ==
    /\ Gt(cur.SMA20, cur.SMA50) /\ Gt(cur.Close, cur.SMA20)
    /\ Le(prev.Close, prev.SMA20) /\ Lt(cur.RSI, Pct(70))

ShortCross(cur, prev) ==
    /\ Lt(cur.SMA20, cur.SMA50) /\ Lt(cur.Close, cur.SMA20)
    /\ Ge(prev.Close, prev.SMA20) /\ Gt(cur.RSI, Pct(30))

----------------------------------------------------------------------------
(* C14: the entry rule returns Flat, and a Flat engine is left as it was,  *)
(* whenever an indicator the rule reads is undefined at the current or at  *)
(* the previous bar: a moving average or an RSI still in warm-up, an RSI   *)
(* over a flat window.  The crossover classes read SMA20, SMA50 and RSI of *)
(* the current row and SMA20 of the previous one; main3.py reads SMA, RSI  *)
(* and ATR of the current row and RSI of the previous one.                 *)
\* the RSI of row k of a class is undefined: warm-up, or 0 / 0
RSIUndefined(cls, row, k) ==
    \/ k < RSIWindow(cls) - 1
    \/ IF cls = "main_revised" THEN row.avg[1] = 0 /\ row.avg[2] = 0
                                ELSE row.sums.gain = 0 /\ row.sums.loss = 0

ReadsUndefined(b) ==
    LET k   == obs[b].bar
        cls == bots[b].cls
    IN  IF cls = "main3"
        THEN \/ k < FastWindow - 1
             \/ k < 14 - 1
             \/ RSIUndefined(cls, runs[b].row, k)
             \/ RSIUndefined(cls, runs[b].prev, k - 1)
        ELSE \/ k < SlowWindow - 1
             \/ k - 1 < FastWindow - 1
             \/ RSIUndefined(cls, runs[b].row, k)

----------------------------------------------------------------------------
(* C15: a trade is appended to the ledger exactly when a position closes:  *)
(* every step that takes the engine from an open position to Flat, by exit *)
(* signal, stop-loss or take-profit, appends exactly one trade; no other   *)
(* step appends one; the ledger before a step is a prefix of the ledger    *)
(* after it.                                                               *)
IsPrefix(s, t) == Len(s) <= Len(t) /\ SubSeq(t, 1, Len(s)) = s

\* the last step took the engine from an open position to Flat
Closed(b) == obs[b].before.position # 0 /\ bots[b].position = 0

LedgerStep(b) ==
    /\ IsPrefix(obs[b].before.trades, bots[b].trades)
    /\ Len(bots[b].trades) = Len(obs[b].before.trades) + (IF Closed(b) THEN 1 ELSE 0)

C15_TradePerClose == \A b \in Bots : Stepped(b) => LedgerStep(b)

----------------------------------------------------------------------------
(* C16: with a positive stop-loss distance S and take-profit distance T, a *)
(* take-profit close changes the balance by exactly +T x lot x contract    *)
(* and a stop-loss close by exactly -S x lot x contract, for Long and for  *)
(* Short positions alike: a close on a favourable move never lowers the    *)
(* balance, a close on an adverse move never raises it.                    *)
\* distance x lot x contract of the position the last step closed
Stake(b, distance) ==
    RMul(RMul(distance, obs[b].before.lot_size), RInt(ContractOf(obs[b].before)))

PositiveLevels(b) == Gt(obs[b].sl, Zero) /\ Gt(obs[b].tp, Zero)

LevelClose(b) ==
    /\ Took(b, {"take"})
          => bots[b].balance = RAdd(obs[b].before.balance, Stake(b, obs[b].tp))
    /\ Took(b, {"stop"})
          => bots[b].balance = RSub(obs[b].before.balance, Stake(b, obs[b].sl))

C16_LevelCloseBalance ==
    \A b \in Bots : (Held(b) /\ PositiveLevels(b)) => LevelClose(b)

----------------------------------------------------------------------------
(* C17: the step that takes the engine from Flat to Open at bar i sets     *)
(* entry_price to the close of bar i; entry_price keeps that value while   *)
(* the position is open, and the trade recorded at its close carries it as *)
(* its entry_price.                                                        *)
\* close of the bar the position of engine b was last opened on
EntryClose(b) == RInt(Close(runs[b].data, obs[b].entry_bar))

EntryKept(b) ==
    /\ Took(b, {"open"})
          => /\ obs[b].entry_bar = obs[b].bar
             /\ bots[b].position # 0
    /\ bots[b].position # 0 => bots[b].entry_price = EntryClose(b)
    /\ Appended(b) => LastTrade(b).entry_price = EntryClose(b)

C17_EntryPriceIsEntryClose == \A b \in Bots : Stepped(b) => EntryKept(b)

\* a position opened on an earlier bar at a close other than the current
\* one is closed and recorded
C17_Witness ==
    \E b \in Bots :
        /\ Stepped(b) /\ Appended(b)
        /\ obs[b].entry_bar < obs[b].bar - 1
        /\ EntryClose(b) # obs[b].price
        /\ LastTrade(b).entry_price = EntryClose(b)

----------------------------------------------------------------------------
(* C18: a bar step leaves position, entry_price, balance and ledger        *)
(* unchanged when the engine is Flat and the entry signal is Flat, and     *)
(* when a position is open, the exit signal is hold and the move from the  *)
(* entry price lies strictly between -stopLoss and +takeProfit.  The two   *)
(* comparisons are inclusive: a move of exactly -stopLoss or exactly       *)
(* +takeProfit closes the position.  The levels are the ones execute_trade *)
(* compares with (in main3.py the ones of the current bar).                *)
Framed(self) == <<self.position, self.entry_price, self.balance, self.trades>>

\* move of the price from the entry price, in favour of the position
Move(b) == PriceDiff(obs[b].before, obs[b].price)

Holding(b) == obs[b].before.position # 0 /\ obs[b].signal = obs[b].before.position

OnLevel(b) ==
    \/ Le(Move(b), RNeg(obs[b].sl)) /\ Ge(Move(b), RNeg(obs[b].sl))
    \/ Le(Move(b), obs[b].tp) /\ Ge(Move(b), obs[b].tp)

FrameStep(b) ==
    /\ (obs[b].before.position = 0 /\ obs[b].signal = 0 /\ obs[b].entry = 0)
          => Framed(bots[b]) = Framed(obs[b].before)
    /\ (Holding(b) /\ Gt(Move(b), RNeg(obs[b].sl)) /\ Lt(Move(b), obs[b].tp))
          => Framed(bots[b]) = Framed(obs[b].before)
    /\ (Holding(b) /\ OnLevel(b)) => bots[b].position = 0

----------------------------------------------------------------------------
(* C19: run() leaves the caller's bar series unchanged: the series has the *)
(* same bars and the same set of fields after the call as before it; the   *)
(* indicator columns are added to a copy only, in every class.             *)
C19_CallerSeriesUnchanged ==
    \A b \in Bots : source[b].columns = BarColumns

----------------------------------------------------------------------------
(* C20: no look-ahead.  Two engines with the same configuration, run over  *)
(* two series that agree on bars 0..k, have the same position,             *)
(* entry_price, balance and ledger after bar k, in every class, main3.py   *)
(* with its clustered thresholds included.  The trades are compared field  *)
(* by field except for the reading of the clock (see C9).                  *)
\* the trades as recorded, clock reading included
Stamped(trades) == trades

\* the trades without the reading of the clock
Unstamped(trades) == [i \in DOMAIN trades |-> [trades[i] EXCEPT !.timestamp = 0]]

Outcome(self) ==
    <<self.position, self.entry_price, self.balance, Unstamped(self.trades)>>

\* the two series agree on every bar read so far
SamePrefix == runs[1].data = runs[Len(runs)].data

SameThresholds ==
    /\ runs[1].oversold = runs[Len(runs)].oversold
    /\ runs[1].overbought = runs[Len(runs)].overbought

----------------------------------------------------------------------------
(* C21: engine instances are isolated.  In any interleaving of the bar     *)
(* steps of two instances, each over its own series, the position,         *)
(* entry_price, balance and ledger of each instance are, after every step, *)
(* those it has when run alone over the same bars; a step of one instance  *)
(* leaves the other as it was.                                             *)
C21_Isolated ==
    \A b \in {1, 2} :
        /\ Framed(bots[b]) = Framed(bots[b + 2])
        /\ runs[b] = runs[b + 2]

\* both instances have recorded a trade, and not the same one
C21_Witness ==
    /\ Len(bots) = 4
    /\ Len(bots[1].trades) > 0 /\ Len(bots[2].trades) > 0
    /\ bots[1].trades # bots[2].trades
    /\ Framed(bots[1]) = Framed(bots[3])
    /\ Framed(bots[2]) = Framed(bots[4])

----------------------------------------------------------------------------
(* C22: in main2.py stop_loss and take_profit stay at their initial value  *)
(* 0 for the whole run, so on a series of non-negative closes every        *)
(* position opened at bar i is closed at bar i + 1, at the close of that   *)
(* bar; no position is held for more than one bar.                         *)
OneBarPosition(b) ==
    /\ bots[b].stop_loss = Zero /\ bots[b].take_profit = Zero
    /\ bots[b].position # 0 => (Took(b, {"open"}) /\ obs[b].entry_bar = obs[b].bar)
    /\ (Stepped(b) /\ obs[b].before.position # 0)
          => /\ bots[b].position = 0
             /\ obs[b].bar = obs[b].entry_bar + 1
             /\ Appended(b)
             /\ LastTrade(b).exit_price = RInt(Close(runs[b].data, obs[b].bar))
             /\ LastTrade(b).entry_price = EntryClose(b)

C22_ClosedOnNextBar ==
    \A b \in Bots : bots[b].cls = "main2" => OneBarPosition(b)

\* a position of main2.py is closed on the bar after its entry, at a loss
C22_Witness ==
    \E b \in Bots :
        /\ bots[b].cls = "main2" /\ Stepped(b)
        /\ obs[b].before.position # 0 /\ bots[b].position = 0
        /\ obs[b].bar = obs[b].entry_bar + 1
        /\ Appended(b) /\ Lt(LastTrade(b).profit_loss, Zero)

----------------------------------------------------------------------------
(* C23: run() does not close a position that is still open after the last  *)
(* bar: it returns with position # 0, with no trade for that position in   *)
(* the ledger and with a balance that does not include the unrealised      *)
(* profit or loss; a second run() on the same instance starts from the     *)
(* position, entry_price, balance and ledger the first one left, not from  *)
(* a fresh state.                                                          *)
\* the first call of run() is in its loop or has returned
FirstCall(b) == runs[b].pc \in {"loop", "done"}

\* a step that leaves a position open realises nothing, and no trade of
\* the ledger belongs to the open position
Unrealised(b) ==
    /\ bots[b].balance = obs[b].before.balance
    /\ bots[b].trades = obs[b].before.trades
    /\ Len(obs[b].spans) = Len(bots[b].trades)
          => \A i \in DOMAIN obs[b].spans : obs[b].spans[i][2] <= obs[b].entry_bar

LeftOpen(b) ==
    /\ (FirstCall(b) /\ bots[b].position # 0 /\ obs[b].kind # "new") => Unrealised(b)
    /\ runs[b].pc = "done" => bots[b] = obs[b].before
    /\ (runs[b].pc = "again" /\ Len(runs[b].data) = 0) => bots[b] = obs[b].before

C23_LeftOverPosition == \A b \in Bots : LeftOpen(b)

\* the second call closes, on its first step, the position the first call
\* left open
C23_Witness ==
    \E b \in Bots :
        /\ runs[b].pc = "again" /\ obs[b].bar = 1
        /\ obs[b].before.position # 0 /\ bots[b].position = 0
        /\ Appended(b)
        /\ LastTrade(b).entry_price = obs[b].before.entry_price

====
